---------------------------- MODULE Spec2Model ----------------------------
(***************************************************************************)
(* A model of the foraging simulation: the resource patch                  *)
(* (abm/environment/rescource.py), the agent's movement                     *)
(* (abm/sprites/agent.py) and the two tick loops                            *)
(* (abm/simulation/sims_target.py, the walled terminate-on-contact variant, *)
(* and abm/simulation/sims_target_nowalls.py, the persistent-foraging      *)
(* variant).                                                                *)
(*                                                                         *)
(* Numbers.  The program computes in floats; the model computes exactly on *)
(* grids.  Resource amounts are integers counting 1/AmtScale of a unit.    *)
(* Actions (the controller's output, the action noise) count 1/One, angles *)
(* count pi/4 (so that turn = NN_output * pi/2 is the action's count       *)
(* itself), and a coordinate is a pair <<p, q>> standing for               *)
(* (p + q*sqrt(2)/2) / PosScale pixels, which is closed under the moves    *)
(* along the eight headings and makes every comparison of distances exact. *)
(***************************************************************************)
EXTENDS Integers, Sequences, FiniteSets, TLC

(***************************************************************************)
(* Bounds of the model.                                                    *)
(***************************************************************************)
AmtScale == 2        \* resource amounts count 1/AmtScale of a unit
MaxUnits == 3        \* a patch starts with 1..MaxUnits whole units
MaxQuality == 2      \* quality is 0..MaxQuality units per timestep, in 1/AmtScale steps
MaxRequest == 2      \* deplete is asked for -MaxRequest..MaxRequest units, in 1/AmtScale steps
MaxLeft == 5         \* the deplete harness stops once more than MaxLeft units are left

VARIABLES
    config,              \* the episode's configuration (Simulation.__init__ arguments)
    t,                   \* Simulation.t
    pc,                  \* position in Simulation.start
    idx,                 \* position of the "for agent in self.agents" loop of the action phase
    result,              \* the value start returned
    agents,              \* Simulation.agents: id -> the Agent's fields
    resources,           \* Simulation.resources: the ids of the patches in the world
    patch,               \* id -> the patch's fields (alive or killed but still referenced)
    call,                \* the last deplete call: its argument, the units left before, its result
    first_consume,       \* Simulation.first_consume
    first_consume_time,  \* Simulation.first_consume_time
    data_agent,          \* Simulation.data_agent[id][t]
    moved,               \* the last Agent.move call: the agent, its argument, the velocity before
    sensed,              \* the last Agent.visual_sensing call: the agent before, the noise, its outcome
    placing,             \* create_agents: retries and the last sample of the agent being placed
    ea,                  \* EvolAlgo: generations, population_size, episodes, start_seed, generation
    pool                 \* the inputs of the start calls last submitted to the worker pool

vars == <<config, t, pc, idx, result, agents, resources, patch, call,
          first_consume, first_consume_time, data_agent, moved, sensed, placing, ea, pool>>

simVars == <<config, t, idx, result, agents, resources,
             first_consume, first_consume_time, data_agent, moved, sensed, placing, ea, pool>>

Min(a, b) == IF a <= b THEN a ELSE b

(***************************************************************************)
(* Rescource (abm/environment/rescource.py)                                *)
(***************************************************************************)

\* Rescource.__init__: resc_left starts at resc_units; quality is unit_per_timestep.
NewRescource(resc_units, quality) ==
    [resc_units |-> resc_units, resc_left |-> resc_units, unit_per_timestep |-> quality]

\* Mutant of Deplete: the cap at unit_per_timestep is missing.
DepleteNoQualityCap(p, rescource_units) ==
    IF p.resc_left >= rescource_units
    THEN [p |-> [p EXCEPT !.resc_left = p.resc_left - rescource_units],
          depleted_units |-> rescource_units,
          destroy |-> ~(p.resc_left - rescource_units > 0)]
    ELSE [p |-> [p EXCEPT !.resc_left = 0],
          depleted_units |-> p.resc_left,
          destroy |-> TRUE]

\* Rescource.deplete: the patch after the call and the returned pair
\* (depleted_units, whether resc_left is no longer positive).
Deplete(p, rescource_units) ==
    LET capped == IF rescource_units > p.unit_per_timestep
                  THEN p.unit_per_timestep
                  ELSE rescource_units
        left == IF p.resc_left >= capped THEN p.resc_left - capped ELSE 0
        depleted_units == IF p.resc_left >= capped THEN capped ELSE p.resc_left
    IN  [p |-> [p EXCEPT !.resc_left = left],
         depleted_units |-> depleted_units,
         destroy |-> ~(left > 0)]

NoCall == [made |-> FALSE, id |-> 0, u |-> 0, before |-> 0, granted |-> 0, destroy |-> FALSE]

\* The record of a deplete call on patch id.
CallOf(id, u, before, r) ==
    [made |-> TRUE, id |-> id, u |-> u, before |-> before,
     granted |-> r.depleted_units, destroy |-> r.destroy]

(***************************************************************************)
(* The patch on its own: any sequence of deplete calls with any argument.  *)
(***************************************************************************)
NoConfig == [sim_type |-> "none"]
NoEA == [generations |-> 0]

InitDeplete ==
    /\ config = NoConfig
    /\ t = 0 /\ pc = "deplete" /\ idx = 0 /\ result = <<>>
    /\ agents = <<>> /\ resources = {0}
    /\ \E k \in 1..MaxUnits, q \in 0..(MaxQuality * AmtScale) :
           patch = [id \in {0} |-> NewRescource(k * AmtScale, q)]
    /\ call = NoCall
    /\ first_consume = TRUE /\ first_consume_time = 0
    /\ data_agent = <<>>
    /\ moved = [made |-> FALSE]
    /\ sensed = [made |-> FALSE]
    /\ placing = [retries |-> 0, sampled |-> FALSE]
    /\ ea = NoEA /\ pool = <<>>

DepleteCall ==
    /\ pc = "deplete"
    /\ patch[0].resc_left <= MaxLeft * AmtScale
    /\ \E u \in (-(MaxRequest * AmtScale))..(MaxRequest * AmtScale) :
           LET r == Deplete(patch[0], u)
           IN  /\ patch' = [patch EXCEPT ![0] = r.p]
               /\ call' = CallOf(0, u, patch[0].resc_left, r)
    /\ UNCHANGED <<simVars, pc>>

NextDeplete == DepleteCall

SpecDeplete == InitDeplete /\ [][NextDeplete]_vars



(***************************************************************************)
(* Scales and the episode's fixed parameters                               *)
(***************************************************************************)
One == 2                 \* NN_output = 1.0 on the action grid (steps of 1/One)
FullTurn == 4 * One      \* 2*pi on the angle grid: turn = NN_output * pi/2 counts NN_output
PosScale == 2 * One      \* coordinates count 1/PosScale pixel

WIDTH == 10              \* env_size[0], pixels
HEIGHT == 10             \* env_size[1], pixels
WINDOW_PAD == 1          \* window_pad, pixels
RADIUS_AGENT == 1        \* agent_radius, pixels (also the thickness of the walls)
RADIUS_RESOURCE == 1     \* patch_radius, pixels
RADIUS_LANDMARK == 1     \* the landmarks' radius, pixels
MAXIMUM_VELOCITY == 2    \* max_vel, pixels per tick
AGENT_CONSUMPTION == 1   \* agent_consumption, whole units per tick
MaxT == 4                \* the horizon T is 1..MaxT
MaxNoise == 1            \* the action noise is -MaxNoise..MaxNoise steps of 1/One

(***************************************************************************)
(* Exact arithmetic on p + q*sqrt(2)/2                                     *)
(***************************************************************************)
Max(a, b) == IF a >= b THEN a ELSE b
Abs(a) == IF a >= 0 THEN a ELSE -a

\* The sign of a + b*sqrt(2) for integers a and b.
SgnR2(a, b) ==
    IF a = 0 /\ b = 0 THEN 0
    ELSE IF a >= 0 /\ b >= 0 THEN 1
    ELSE IF a <= 0 /\ b <= 0 THEN -1
    ELSE IF a > 0 THEN (IF a * a > 2 * b * b THEN 1 ELSE -1)
    ELSE (IF 2 * b * b > a * a THEN 1 ELSE -1)

Px(n) == <<PosScale * n, 0>>                  \* the coordinate of pixel n
CAdd(c, d) == <<c[1] + d[1], c[2] + d[2]>>
CSub(c, d) == <<c[1] - d[1], c[2] - d[2]>>
CNeg(c) == <<-c[1], -c[2]>>
CSgn(c) == SgnR2(2 * c[1], c[2])              \* the sign of coordinate c
CAbs(c) == IF CSgn(c) < 0 THEN CNeg(c) ELSE c
PAdd(a, b) == <<CAdd(a[1], b[1]), CAdd(a[2], b[2])>>
PSub(a, b) == <<CSub(a[1], b[1]), CSub(a[2], b[2])>>
PixelPt(x, y) == <<Px(x), Px(y)>>

\* Twice the square of coordinate c, as <<a, b>> standing for a + b*sqrt(2).
Sq2(c) == <<2 * c[1] * c[1] + c[2] * c[2], 2 * c[1] * c[2]>>

\* Twice the squared length of the vector from a to b, as <<a, b>>.
Dist2(a, b) ==
    LET v == PSub(a, b)
        sx == Sq2(v[1])
        sy == Sq2(v[2])
    IN  <<sx[1] + sy[1], sx[2] + sy[2]>>

\* supcalc.distance(a, b) <= r for a radius of r pixels.
DistanceLeq(a, b, r) ==
    LET d == Dist2(a, b)
    IN  SgnR2(d[1] - 2 * (PosScale * r) * (PosScale * r), d[2]) <= 0

PixRange == (-(MaxT + 2) * (MAXIMUM_VELOCITY + 1) - WIDTH - HEIGHT) ..
            ((MaxT + 2) * (MAXIMUM_VELOCITY + 1) + WIDTH + HEIGHT + 2 * WINDOW_PAD)

CGeq(c, n) == CSgn(CSub(c, Px(n))) >= 0       \* coordinate c is at least n pixels
Floor(c) == CHOOSE n \in PixRange : CGeq(c, n) /\ ~CGeq(c, n + 1)
\* The float-to-int conversion of a Rect attribute: truncation towards zero.
Trunc(c) == IF CSgn(c) >= 0 THEN Floor(c) ELSE -Floor(CNeg(c))

(***************************************************************************)
(* Rects and circles (the pygame calls the resolvers make)                 *)
(***************************************************************************)
Rect(x, y, w, h) == [x |-> x, y |-> y, w |-> w, h |-> h]

\* Surface([2r, 2r]).get_rect(center = c): the square of side 2r around c.
RectAround(c, r) == Rect(c[1] - r, c[2] - r, 2 * r, 2 * r)

\* image.get_rect(center = position + window_pad)
RectCenterOf(position) ==
    <<Trunc(CAdd(position[1], Px(WINDOW_PAD))), Trunc(CAdd(position[2], Px(WINDOW_PAD)))>>

\* Rect.colliderect
CollideRect(a, b) ==
    /\ a.x < b.x + b.w /\ b.x < a.x + a.w
    /\ a.y < b.y + b.h /\ b.y < a.y + a.h

\* Rect.clip(...).center: the center of the intersection, and of the empty
\* rect at a's corner when the two do not overlap.
ClipCenter(a, b) ==
    IF ~CollideRect(a, b) THEN <<a.x, a.y>>
    ELSE LET x == Max(a.x, b.x)
             y == Max(a.y, b.y)
             w == Min(a.x + a.w, b.x + b.w) - x
             h == Min(a.y + a.h, b.y + b.h) - y
         IN  <<x + (w \div 2), y + (h \div 2)>>

\* pygame.sprite.collide_circle on two rect centers and radii
CollideCircle(c1, r1, c2, r2) ==
    (c1[1] - c2[1]) * (c1[1] - c2[1]) + (c1[2] - c2[2]) * (c1[2] - c2[2])
        <= (r1 + r2) * (r1 + r2)


(***************************************************************************)
(* Agent (abm/sprites/agent.py)                                            *)
(***************************************************************************)

\* Agent.__init__ at pixel (x, y) with the given orientation.
NewAgent(x, y, orient) ==
    [position |-> PixelPt(x, y),
     orientation |-> orient,
     velocity |-> 0,
     acceleration |-> 0,
     mode |-> "explore",
     collided_points |-> <<>>,
     collected_r |-> 0,
     on_res |-> 0,
     res_to_be_consumed |-> -1,          \* the attribute is not set yet
     rect |-> RectCenterOf(PixelPt(x, y))]

\* Mutant of BindOrientation: the result is not wrapped from below.
BindOrientationNoLowerWrap(o) == IF o > FullTurn THEN o - FullTurn ELSE o

\* Agent.bind_orientation: the two while loops.
RECURSIVE BindOrientation(_)
BindOrientation(o) ==
    IF o < 0 THEN BindOrientation(FullTurn + o)
    ELSE IF o > FullTurn THEN BindOrientation(o - FullTurn)
    ELSE o

\* np.cos and np.sin of an orientation on the grid, as coordinates per unit length.
CosOf(o) ==
    CASE o % FullTurn = 0 -> <<1, 0>>
      [] o % FullTurn = One \div 2 -> <<0, 1>>
      [] o % FullTurn = One -> <<0, 0>>
      [] o % FullTurn = One + One \div 2 -> <<0, -1>>
      [] o % FullTurn = 2 * One -> <<-1, 0>>
      [] o % FullTurn = 2 * One + One \div 2 -> <<0, -1>>
      [] o % FullTurn = 3 * One -> <<0, 0>>
      [] OTHER -> <<0, 1>>
SinOf(o) == CosOf(o + 3 * One)

\* c scaled by the integer k.
CMul(k, c) == <<k * c[1], k * c[2]>>

\* The bearing of vector v (screen coordinates, y down) in [0, 2*pi), counted in
\* steps of pi/8: an even count is that multiple of pi/4 exactly, an odd count
\* stands for any angle strictly between its two neighbours.
Bearing(v) ==
    LET sx == CSgn(v[1])
        sy == -CSgn(v[2])
        cmp == CSgn(CSub(CAbs(v[1]), CAbs(v[2])))
    IN  CASE sy = 0 /\ sx > 0 -> 0
          [] sx > 0 /\ sy > 0 -> 2 - cmp
          [] sx = 0 /\ sy > 0 -> 4
          [] sx < 0 /\ sy > 0 -> 6 + cmp
          [] sx < 0 /\ sy = 0 -> 8
          [] sx < 0 /\ sy < 0 -> 10 - cmp
          [] sx = 0 /\ sy < 0 -> 12
          [] OTHER -> 14 + cmp

\* Mutant of BlockedBy: the two branches for a window that crosses 0 or 2*pi
\* are missing.
BlockedByNoWrap(position, o, pt) ==
    LET vec_coll == PSub(pt, position)
        angle_coll == Bearing(vec_coll)
    IN  vec_coll # PixelPt(0, 0) /\ angle_coll - 2 * One < 2 * o /\ 2 * o < angle_coll + 2 * One

\* move's test of one contact point: whether the orientation o lies within
\* pi/2 + extra_coll_block (which is 0) of the contact's bearing.
BlockedBy(position, o, pt) ==
    LET vec_coll == PSub(pt, position)
        angle_coll == Bearing(vec_coll)
        L_limit == angle_coll - 2 * One
        R_limit == angle_coll + 2 * One
    IN  IF vec_coll = PixelPt(0, 0) THEN FALSE    \* no bearing: every comparison fails
        ELSE IF R_limit > 2 * FullTurn
             THEN L_limit < 2 * o \/ (R_limit - 2 * FullTurn) > 2 * o
        ELSE IF L_limit < 0
             THEN R_limit > 2 * o \/ (L_limit + 2 * FullTurn) < 2 * o
        ELSE L_limit < 2 * o /\ 2 * o < R_limit

\* self.max_vel * (1 - abs(NN_output)), counted in 1/One pixel per tick.
VelocityOf(NN_output) == MAXIMUM_VELOCITY * (One - Abs(NN_output))

\* Agent.move(NN_output)
Move(ag, NN_output) ==
    LET orientation == BindOrientation(ag.orientation + NN_output)
        v == VelocityOf(NN_output)
        blocked == /\ ag.mode = "collide"
                   /\ \E k \in 1..Len(ag.collided_points) :
                          BlockedBy(ag.position, orientation, ag.collided_points[k])
        velocity == IF blocked THEN 0 ELSE v
        step == velocity * (PosScale \div One)
    IN  [ag EXCEPT !.orientation = orientation,
                   !.velocity = velocity,
                   !.acceleration = v - ag.velocity,
                   !.position = <<CAdd(ag.position[1], CMul(step, CosOf(orientation))),
                                  CSub(ag.position[2], CMul(step, SinOf(orientation)))>>]

(***************************************************************************)
(* The world (abm/simulation/sims_target.py, sims_target_nowalls.py)       *)
(***************************************************************************)
Walled == config.sim_type \in {"walls", "walls, 2x pinball"}
Ids == 0..(config.N - 1)

\* create_walls: the four walls in the order they are added, each a rect of the
\* window (its position shifted by window_pad).
Walls ==
    <<[id |-> "wall_north",
       rect |-> Rect(WINDOW_PAD, WINDOW_PAD, WIDTH, RADIUS_AGENT)],
      [id |-> "wall_south",
       rect |-> Rect(WINDOW_PAD, HEIGHT - RADIUS_AGENT + WINDOW_PAD, WIDTH, RADIUS_AGENT)],
      [id |-> "wall_east",
       rect |-> Rect(WIDTH - RADIUS_AGENT + WINDOW_PAD, WINDOW_PAD, RADIUS_AGENT, HEIGHT)],
      [id |-> "wall_west",
       rect |-> Rect(WINDOW_PAD, WINDOW_PAD, RADIUS_AGENT, HEIGHT)]>>

\* create_objs: landmarks exist in the pinball arena only; one of them is kept,
\* placed in the arena's middle.
Objs ==
    IF config.sim_type = "walls, 2x pinball"
    THEN <<[id |-> 0, position |-> <<WIDTH \div 2, HEIGHT \div 2>>]>>
    ELSE <<>>

\* The center of a sprite's rect for a sprite at pixel position pos.
SpriteCenter(pos) == <<pos[1] + WINDOW_PAD, pos[2] + WINDOW_PAD>>

\* collide_agent_wall: an agent whose rect overlaps a wall's rect is set to
\* collide and gets the clip's center, less window_pad, as a contact point.
CollideAgentWall(ags) ==
    [i \in DOMAIN ags |->
        LET r == RectAround(ags[i].rect, RADIUS_AGENT)
            wall_list == SelectSeq(Walls, LAMBDA w : CollideRect(r, w.rect))
            pt(k) == LET c == ClipCenter(r, wall_list[k].rect)
                     IN  PixelPt(c[1] - WINDOW_PAD, c[2] - WINDOW_PAD)
        IN  IF wall_list = <<>> THEN ags[i]
            ELSE [ags[i] EXCEPT
                    !.mode = "collide",
                    !.collided_points = @ \o [k \in 1..Len(wall_list) |-> pt(k)]]]

\* (a + b) / 2 for two coordinates whose sum is even.
CMid(a, b) == <<(a[1] + b[1]) \div 2, (a[2] + b[2]) \div 2>>

\* collide_agent_objs: the same for the landmarks, tested as circles; the
\* contact point is the middle of the two positions, less window_pad.
CollideAgentObjs(ags) ==
    [i \in DOMAIN ags |->
        LET obj_list == SelectSeq(Objs, LAMBDA o :
                            CollideCircle(ags[i].rect, RADIUS_AGENT,
                                          SpriteCenter(o.position), RADIUS_LANDMARK))
            pt(k) == LET o == PixelPt(obj_list[k].position[1], obj_list[k].position[2])
                     IN  <<CSub(CMid(ags[i].position[1], o[1]), Px(WINDOW_PAD)),
                           CSub(CMid(ags[i].position[2], o[2]), Px(WINDOW_PAD))>>
        IN  IF obj_list = <<>> THEN ags[i]
            ELSE [ags[i] EXCEPT
                    !.mode = "collide",
                    !.collided_points = @ \o [k \in 1..Len(obj_list) |-> pt(k)]]]

\* supcalc.within_group_collision: two different sprites whose circles touch.
WithinGroupCollision(ags, i, j) ==
    i # j /\ CollideCircle(ags[i].rect, RADIUS_AGENT, ags[j].rect, RADIUS_AGENT)

\* The elements of the finite set of integers S in increasing order.
RECURSIVE Sorted(_)
Sorted(S) ==
    IF S = {} THEN <<>>
    ELSE LET m == CHOOSE x \in S : \A y \in S : x <= y
         IN  <<m>> \o Sorted(S \ {m})

\* collide_agent_agent: every agent whose circle touches another agent's is set
\* to collide and gets one contact point per such agent.
CollideAgentAgent(ags) ==
    [i \in DOMAIN ags |->
        LET other_agents == Sorted({j \in DOMAIN ags : WithinGroupCollision(ags, i, j)})
            pt(k) == LET c == ClipCenter(RectAround(ags[i].rect, RADIUS_AGENT),
                                         RectAround(ags[other_agents[k]].rect, RADIUS_AGENT))
                     IN  PixelPt(c[1] - WINDOW_PAD, c[2] - WINDOW_PAD)
        IN  IF other_agents = <<>> THEN ags[i]
            ELSE [ags[i] EXCEPT
                    !.mode = "collide",
                    !.collided_points = @ \o [k \in 1..Len(other_agents) |-> pt(k)]]]

ResPoint == PixelPt(config.res_pos[1], config.res_pos[2])

\* collide_agent_res: among the patches whose circle touches the agent's, the
\* first one whose center is within its radius of the agent's position is bound
\* to the agent, which is set to exploit.
CollideAgentRes(ags) ==
    [i \in DOMAIN ags |->
        LET hit == {r \in resources :
                       /\ CollideCircle(ags[i].rect, RADIUS_AGENT,
                                        SpriteCenter(config.res_pos), RADIUS_RESOURCE)
                       /\ DistanceLeq(ags[i].position, ResPoint, RADIUS_RESOURCE)}
        IN  IF hit = {} THEN ags[i]
            ELSE [ags[i] EXCEPT
                    !.mode = "exploit",
                    !.on_res = 1,
                    !.res_to_be_consumed = CHOOSE r \in hit : \A q \in hit : r <= q]]

\* "Refresh agent behavioral states"
Refresh(ags) ==
    [i \in DOMAIN ags |-> [ags[i] EXCEPT !.collided_points = <<>>, !.mode = "explore"]]

\* Mutant of Resolve: the resource resolver runs before the collide resolvers.
ResolveResourceFirst(ags) ==
    IF Walled
    THEN CollideAgentAgent(CollideAgentObjs(CollideAgentWall(CollideAgentRes(ags))))
    ELSE CollideAgentAgent(CollideAgentRes(ags))

\* The resolvers in the order start calls them.
Resolve(ags) ==
    IF Walled
    THEN CollideAgentRes(CollideAgentAgent(CollideAgentObjs(CollideAgentWall(ags))))
    ELSE CollideAgentRes(CollideAgentAgent(ags))

(***************************************************************************)
(* Simulation.start: construction and the tick loop                        *)
(***************************************************************************)

\* The configurations an episode is started with: the variant, the number of
\* agents, the horizon, whether action_noise_std is positive, the patch's
\* position and whether patches are regenerated.
Configs(types) ==
    {c \in [sim_type : types, N : {1, 2}, T : 1..MaxT, noisy : BOOLEAN,
            res_pos : {<<WIDTH \div 2, HEIGHT \div 2>>, <<RADIUS_AGENT, HEIGHT \div 2>>},
            regenerate : BOOLEAN] :
        /\ c.N = 2 => /\ ~c.noisy /\ ~c.regenerate /\ c.T = MaxT - 1
                      /\ c.res_pos = <<WIDTH \div 2, HEIGHT \div 2>>
        /\ c.noisy => c.T <= 2 /\ ~c.regenerate
        /\ c.sim_type # "nowalls" => ~c.regenerate
        /\ c.sim_type = "walls, 2x pinball" =>
               c.N = 1 /\ ~c.noisy /\ c.res_pos # <<WIDTH \div 2, HEIGHT \div 2>>}

\* The positions and orientations create_agents may draw for agent i:
\* x in [2r, WIDTH - 2r), y in [2r, HEIGHT - 2r), orientation in [0, 2*pi).
Starts(i) ==
    IF i = 0
    THEN {<<2 * RADIUS_AGENT, HEIGHT \div 2, 0>>,
          <<2 * RADIUS_AGENT, HEIGHT \div 2 - 2 * RADIUS_AGENT, FullTurn - 3>>,
          <<2 * RADIUS_AGENT, HEIGHT \div 2 - 2 * RADIUS_AGENT, FullTurn - 2>>,
          <<2 * RADIUS_AGENT, HEIGHT \div 2 - 3 * RADIUS_AGENT, FullTurn - 2>>}
    ELSE {<<2 * RADIUS_AGENT, HEIGHT \div 2 + RADIUS_AGENT, One>>,
          <<2 * RADIUS_AGENT, HEIGHT \div 2, 0>>,
          <<WIDTH \div 2 - RADIUS_RESOURCE, HEIGHT \div 2 - MAXIMUM_VELOCITY, FullTurn - One>>}

\* create_agents leaves its retry loop with a placement in which the new
\* agent's circle touches neither the patch's nor an earlier agent's.
ValidPlacement(cfg, ags) ==
    \A i \in DOMAIN ags :
        /\ ~CollideCircle(ags[i].rect, RADIUS_AGENT,
                          <<cfg.res_pos[1] + WINDOW_PAD, cfg.res_pos[2] + WINDOW_PAD>>,
                          RADIUS_RESOURCE)
        /\ \A j \in DOMAIN ags :
               j < i => ~CollideCircle(ags[i].rect, RADIUS_AGENT, ags[j].rect, RADIUS_AGENT)

\* The units and the quality create_resources may draw for the patch.
SimPatches(cfg) ==
    IF cfg.sim_type # "nowalls" THEN {<<AmtScale, AmtScale>>}
    ELSE IF cfg.N = 2 THEN {<<AmtScale, AmtScale>>, <<2 * AmtScale, AmtScale>>}
    ELSE {<<AmtScale, AmtScale>>, <<2 * AmtScale, AmtScale>>, <<2 * AmtScale, AmtScale \div 2>>}

InitSim(types) ==
    /\ config \in Configs(types)
    /\ t = 0 /\ pc = "loop" /\ idx = 0 /\ result = <<>>
    /\ resources = {0}
    /\ \E uq \in SimPatches(config) : patch = [id \in {0} |-> NewRescource(uq[1], uq[2])]
    /\ \E st \in [0..(config.N - 1) -> UNION {Starts(i) : i \in 0..1}] :
           /\ \A i \in 0..(config.N - 1) : st[i] \in Starts(i)
           /\ agents = [i \in 0..(config.N - 1) |-> NewAgent(st[i][1], st[i][2], st[i][3])]
    /\ ValidPlacement(config, agents)
    /\ call = NoCall
    /\ first_consume = TRUE /\ first_consume_time = 0
    /\ data_agent = [i \in 0..(config.N - 1) |-> [k \in 0..(config.T - 1) |-> 0]]
    /\ moved = [made |-> FALSE]
    /\ sensed = [made |-> FALSE]
    /\ placing = [retries |-> 0, sampled |-> FALSE]
    /\ ea = NoEA /\ pool = <<>>

\* "while self.t < self.T": the refresh of the modes and the resolvers.
CollisionPass ==
    /\ pc = "loop" /\ t < config.T
    /\ agents' = Resolve(Refresh(agents))
    /\ pc' = "sense"
    /\ UNCHANGED <<pool, ea, placing, sensed, config, t, idx, result, resources, patch, call,
                   first_consume, first_consume_time, data_agent, moved>>

\* visual_sensing (which restores the orientation it perturbs), the update of
\* every agent's rect to its position, and save_data_agent.
SenseAndTrack ==
    /\ pc = "sense"
    /\ agents' = [i \in Ids |-> [agents[i] EXCEPT !.rect = RectCenterOf(agents[i].position)]]
    /\ data_agent' = [i \in Ids |-> [data_agent[i] EXCEPT ![t] = agents[i].collected_r]]
    /\ pc' = "act" /\ idx' = 0
    /\ UNCHANGED <<pool, ea, placing, sensed, config, t, result, resources, patch, call,
                   first_consume, first_consume_time, moved>>

ActionSet == IF config.N = 1 THEN (-One)..One ELSE {-One, 0, One}
NoiseSet == IF config.noisy THEN (-MaxNoise)..MaxNoise ELSE {0}

\* Mutant of ActMove: the agent is moved whatever its mode.
ActMoveInAnyMode ==
    /\ pc = "act" /\ idx < config.N
    /\ \E action \in ActionSet, noise \in NoiseSet :
           /\ agents' = [agents EXCEPT ![idx] = Move(@, action + noise)]
           /\ moved' = [made |-> TRUE, id |-> idx, NN_output |-> action + noise,
                        velocity_last_step |-> agents[idx].velocity,
                        before |-> agents[idx]]
    /\ idx' = idx + 1
    /\ UNCHANGED <<pool, ea, placing, sensed, config, t, pc, result, resources, patch, call,
                   first_consume, first_consume_time, data_agent>>

\* The action phase for an agent that is not in exploit mode:
\* agent.move(agent.action + noise).
ActMove ==
    /\ pc = "act" /\ idx < config.N
    /\ agents[idx].mode # "exploit"
    /\ \E action \in ActionSet, noise \in NoiseSet :
           /\ agents' = [agents EXCEPT ![idx] = Move(@, action + noise)]
           /\ moved' = [made |-> TRUE, id |-> idx, NN_output |-> action + noise,
                        velocity_last_step |-> agents[idx].velocity,
                        before |-> agents[idx]]
    /\ idx' = idx + 1
    /\ UNCHANGED <<pool, ea, placing, sensed, config, t, pc, result, resources, patch, call,
                   first_consume, first_consume_time, data_agent>>

\* Mutant of ActFound: the agent found in exploit mode is skipped and the tick
\* goes on.
ActFoundKeepsRunning ==
    /\ pc = "act" /\ idx < config.N
    /\ Walled
    /\ agents[idx].mode = "exploit"
    /\ idx' = idx + 1
    /\ UNCHANGED <<pool, ea, placing, sensed, config, t, pc, result, agents, resources, patch, call,
                   first_consume, first_consume_time, data_agent, moved>>

\* Walled variant: the first agent of the action phase found in exploit mode
\* ends the episode: return self.t, 0.
ActFound ==
    /\ pc = "act" /\ idx < config.N
    /\ Walled
    /\ agents[idx].mode = "exploit"
    /\ result' = <<t, 0>>
    /\ pc' = "done"
    /\ UNCHANGED <<pool, ea, placing, sensed, config, t, idx, agents, resources, patch, call,
                   first_consume, first_consume_time, data_agent, moved>>

\* Mutant of ActConsume: the agent is credited with what it asked for.
ActConsumeCreditsRequest ==
    /\ pc = "act" /\ idx < config.N
    /\ ~Walled
    /\ agents[idx].mode = "exploit"
    /\ first_consume' = FALSE
    /\ first_consume_time' = IF first_consume THEN t ELSE first_consume_time
    /\ LET id == agents[idx].res_to_be_consumed
           r == Deplete(patch[id], AGENT_CONSUMPTION * AmtScale)
       IN  /\ patch' = [patch EXCEPT ![id] = r.p]
           /\ call' = CallOf(id, AGENT_CONSUMPTION * AmtScale, patch[id].resc_left, r)
           /\ agents' = [agents EXCEPT ![idx] =
                  [@ EXCEPT !.collected_r = @ + AGENT_CONSUMPTION * AmtScale,
                            !.mode = "exploit"]]
           /\ resources' = IF r.destroy THEN resources \ {id} ELSE resources
           /\ IF r.destroy /\ config.regenerate
              THEN pc' = "raised" /\ idx' = idx
              ELSE pc' = pc /\ idx' = idx + 1
    /\ UNCHANGED <<pool, ea, placing, sensed, config, t, result, data_agent, moved>>

\* Mutant of ActConsume: without the first_consume flag, every consuming tick
\* is recorded as the first.
ActConsumeTracksEveryContact ==
    /\ pc = "act" /\ idx < config.N
    /\ ~Walled
    /\ agents[idx].mode = "exploit"
    /\ first_consume' = FALSE
    /\ first_consume_time' = t
    /\ LET id == agents[idx].res_to_be_consumed
           r == Deplete(patch[id], AGENT_CONSUMPTION * AmtScale)
       IN  /\ patch' = [patch EXCEPT ![id] = r.p]
           /\ call' = CallOf(id, AGENT_CONSUMPTION * AmtScale, patch[id].resc_left, r)
           /\ agents' = [agents EXCEPT ![idx] =
                  IF r.depleted_units > 0
                  THEN [@ EXCEPT !.collected_r = @ + r.depleted_units, !.mode = "exploit"]
                  ELSE [@ EXCEPT !.mode = "explore"]]
           /\ resources' = IF r.destroy THEN resources \ {id} ELSE resources
           /\ IF r.destroy /\ config.regenerate
              THEN pc' = "raised" /\ idx' = idx
              ELSE pc' = pc /\ idx' = idx + 1
    /\ UNCHANGED <<pool, ea, placing, sensed, config, t, result, data_agent, moved>>

\* No-walls variant: an agent in exploit mode consumes (Simulation.consume).
\* With regeneration on, a depleted patch makes consume call
\* add_new_resource_patch_stationary_single, which the class does not define.
ActConsume ==
    /\ pc = "act" /\ idx < config.N
    /\ ~Walled
    /\ agents[idx].mode = "exploit"
    /\ first_consume' = FALSE
    /\ first_consume_time' = IF first_consume THEN t ELSE first_consume_time
    /\ LET id == agents[idx].res_to_be_consumed
           r == Deplete(patch[id], AGENT_CONSUMPTION * AmtScale)
       IN  /\ patch' = [patch EXCEPT ![id] = r.p]
           /\ call' = CallOf(id, AGENT_CONSUMPTION * AmtScale, patch[id].resc_left, r)
           /\ agents' = [agents EXCEPT ![idx] =
                  IF r.depleted_units > 0
                  THEN [@ EXCEPT !.collected_r = @ + r.depleted_units, !.mode = "exploit"]
                  ELSE [@ EXCEPT !.mode = "explore"]]
           /\ resources' = IF r.destroy THEN resources \ {id} ELSE resources
           /\ IF r.destroy /\ config.regenerate
              THEN pc' = "raised" /\ idx' = idx
              ELSE pc' = pc /\ idx' = idx + 1
    /\ UNCHANGED <<pool, ea, placing, sensed, config, t, result, data_agent, moved>>

\* "Step sim time forward"
StepTime ==
    /\ pc = "act" /\ idx = config.N
    /\ t' = t + 1
    /\ pc' = "loop"
    /\ UNCHANGED <<pool, ea, placing, sensed, config, idx, result, agents, resources, patch, call,
                   first_consume, first_consume_time, data_agent, moved>>

\* Walled variant, the loop is left at t = T:
\* return self.T, distance(first agent, first patch).
FinishWalled ==
    /\ pc = "loop" /\ ~(t < config.T)
    /\ Walled
    /\ result' = <<config.T, Dist2(agents[0].position, ResPoint)>>
    /\ pc' = "done"
    /\ UNCHANGED <<pool, ea, placing, sensed, config, t, idx, agents, resources, patch, call,
                   first_consume, first_consume_time, data_agent, moved>>

RECURSIVE SumLast(_, _)
SumLast(d, n) == IF n = 0 THEN 0 ELSE d[n - 1][config.T - 1] + SumLast(d, n - 1)

\* No-walls variant, the loop is left at t = T:
\* return self.T, np.sum(self.data_agent[:,-1,3]), self.first_consume_time.
FinishNoWalls ==
    /\ pc = "loop" /\ ~(t < config.T)
    /\ ~Walled
    /\ first_consume_time' = IF first_consume THEN config.T ELSE first_consume_time
    /\ result' = <<config.T, SumLast(data_agent, config.N), first_consume_time'>>
    /\ pc' = "done"
    /\ UNCHANGED <<pool, ea, placing, sensed, config, t, idx, agents, resources, patch, call,
                   first_consume, data_agent, moved>>

InitWalls == InitSim({"walls", "walls, 2x pinball"})
NextWalls == CollisionPass \/ SenseAndTrack \/ ActMove \/ ActFound \/ StepTime \/ FinishWalled
SpecWalls == InitWalls /\ [][NextWalls]_vars

InitNoWalls == InitSim({"nowalls"})
NextNoWalls == CollisionPass \/ SenseAndTrack \/ ActMove \/ ActConsume \/ StepTime \/ FinishNoWalls
SpecNoWalls == InitNoWalls /\ [][NextNoWalls]_vars

Init == InitSim({"walls", "walls, 2x pinball", "nowalls"})
Next == NextWalls \/ NextNoWalls
Spec == Init /\ [][Next]_vars

(***************************************************************************)
(* Perception (Agent.visual_sensing and what it calls)                     *)
(*                                                                         *)
(* Relative angles are counted in steps of pi/8 ("half-steps"), positive   *)
(* clockwise: an even count is that multiple of pi/4 exactly, an odd count *)
(* stands for any angle strictly between its two neighbours.  The rays     *)
(* (phis) lie on the pi/4 grid, so every comparison of a ray with a        *)
(* perceived angle is exact.                                               *)
(***************************************************************************)
BOUNDARY_SCALE == 0      \* boundary_scale, pixels
VISION_RANGE == 3        \* vision_range, pixels

\* Numbers a + b*sqrt(2) as <<a, b>>: twice a coordinate, their product, the
\* comparison of two of them.
R2(c) == <<2 * c[1], c[2]>>
RAdd(x, y) == <<x[1] + y[1], x[2] + y[2]>>
RSub(x, y) == <<x[1] - y[1], x[2] - y[2]>>
RMul(x, y) == <<x[1] * y[1] + 2 * x[2] * y[2], x[1] * y[2] + x[2] * y[1]>>
\* a / b > sqrt(2) for a >= 0 and b > 0, by the continued fraction of sqrt(2).
RECURSIVE GtSqrt2(_, _)
GtSqrt2(a, b) ==
    IF a >= 2 * b THEN TRUE
    ELSE IF a <= b THEN FALSE
    ELSE ~GtSqrt2(2 * b - a, a - b)
RSgn(x) ==
    IF x[1] = 0 /\ x[2] = 0 THEN 0
    ELSE IF x[1] >= 0 /\ x[2] >= 0 THEN 1
    ELSE IF x[1] <= 0 /\ x[2] <= 0 THEN -1
    ELSE IF x[1] > 0 THEN (IF GtSqrt2(x[1], -x[2]) THEN 1 ELSE -1)
    ELSE (IF GtSqrt2(-x[1], x[2]) THEN -1 ELSE 1)
RCmp(x, y) == RSgn(RSub(x, y))

\* The unit vector of a heading on the pi/4 grid, in screen coordinates.
DirOf(o) == <<CosOf(o), CNeg(SinOf(o))>>

\* The cross and the dot product of direction u and vector v, in one scale.
CrossOf(u, v) == RSub(RMul(R2(u[1]), R2(v[2])), RMul(R2(u[2]), R2(v[1])))
DotOf(u, v) == RAdd(RMul(R2(u[1]), R2(v[1])), RMul(R2(u[2]), R2(v[2])))

\* gather_self_percep_info: the sensor origin of an agent at position with the
\* (possibly noise-perturbed) orientation o.
PtEye(position, o) ==
    <<CAdd(position[1], CMul(RADIUS_AGENT * PosScale, CosOf(o))),
      CSub(position[2], CMul(RADIUS_AGENT * PosScale, SinOf(o)))>>

\* An angle in half-steps brought into (-pi, pi].
WrapHalf(h) ==
    LET m == h % (2 * FullTurn)
    IN  IF m > FullTurn THEN m - 2 * FullTurn ELSE m

\* supcalc.angle_bw_vis: the signed angle of vec_between seen from heading o,
\* in (-pi, pi], positive to the right.
AngleBwVis(o, vec_between) == WrapHalf(2 * o - Bearing(vec_between))

\* angle a > angle b for two angles in half-steps of the vectors va and vb.
AngleGt(a, va, b, vb) ==
    IF a # b THEN a > b
    ELSE IF a % 2 = 0 THEN FALSE
    ELSE RSgn(RSub(RMul(R2(va[2]), R2(vb[1])), RMul(R2(va[1]), R2(vb[2])))) > 0

\* Simulation.boundary_endpts: TL, TR, BL, BR.
BoundaryEndpts ==
    [TL |-> PixelPt(-BOUNDARY_SCALE, -BOUNDARY_SCALE),
     TR |-> PixelPt(WIDTH + BOUNDARY_SCALE, -BOUNDARY_SCALE),
     BL |-> PixelPt(-BOUNDARY_SCALE, HEIGHT + BOUNDARY_SCALE),
     BR |-> PixelPt(WIDTH + BOUNDARY_SCALE, HEIGHT + BOUNDARY_SCALE)]

\* gather_boundary_endpt_info and gather_boundary_wall_info: the four walls in
\* dictionary order, each with the angles and coordinates of its two endpoints.
GatherBoundaryWallInfo(pt_eye, o) ==
    LET wall(name, L, R) ==
            [name |-> name,
             coord_L |-> BoundaryEndpts[L], coord_R |-> BoundaryEndpts[R],
             vec_L |-> PSub(BoundaryEndpts[L], pt_eye),
             vec_R |-> PSub(BoundaryEndpts[R], pt_eye),
             angle_L |-> AngleBwVis(o, PSub(BoundaryEndpts[L], pt_eye)),
             angle_R |-> AngleBwVis(o, PSub(BoundaryEndpts[R], pt_eye))]
    IN  <<wall("wall_north", "TL", "TR"), wall("wall_south", "BR", "BL"),
          wall("wall_east", "TR", "BR"), wall("wall_west", "BL", "TL")>>

\* self.phis = np.linspace(-FOV*pi, FOV*pi, vis_field_res) for a field of view
\* of fov steps of pi/4 to each side and a ray every pi/4.
VisFieldRes == 2 * config.fov + 1
Phi(i) == i - 1 - config.fov

\* The entry of vis_field for a ray on which nothing is perceived (the 0 of
\* "self.vis_field = [0] * self.vis_field_res").
NothingPerceived == "0"

\* Mutant of WallsOfRay: without the second iteration for the wall whose span
\* runs behind the agent's back.
WallsOfRayDirectOnly(walls, i) ==
    SelectSeq(walls, LAMBDA w : w.angle_L <= 2 * Phi(i) /\ 2 * Phi(i) <= w.angle_R)

\* fill_vis_field_walls for ray i: the walls whose span holds the ray, and,
\* when there is none, the walls whose span runs behind the agent's back.
WallsOfRay(walls, i) ==
    LET direct == SelectSeq(walls, LAMBDA w : w.angle_L <= 2 * Phi(i) /\ 2 * Phi(i) <= w.angle_R)
    IN  IF direct # <<>> THEN direct
        ELSE SelectSeq(walls, LAMBDA w : AngleGt(w.angle_L, w.vec_L, w.angle_R, w.vec_R))

\* fill_vis_field_walls: the label of every ray after the wall pass.
FillVisFieldWalls(walls) ==
    [i \in 1..VisFieldRes |->
        LET ws == WallsOfRay(walls, i) IN IF ws = <<>> THEN NothingPerceived ELSE ws[Len(ws)].name]

\* fill_dist_field raises for ray i and wall w: get_intersection returns None
\* for a ray parallel to the wall, and "self.pt_eye - pt_cross" is then a
\* TypeError.
RayParallel(o, i, w) ==
    RSgn(CrossOf(DirOf(o - Phi(i)), PSub(w.coord_R, w.coord_L))) = 0
FillDistFieldRaises(walls, o) ==
    \E i \in 1..VisFieldRes :
        \E k \in 1..Len(WallsOfRay(walls, i)) : RayParallel(o, i, WallsOfRay(walls, i)[k])

\* fill_vis_field_walls with the distance channel on, when fill_dist_field
\* raises: the rays before the raising one are labelled, the raising ray has
\* the label of the wall whose edge it is parallel to, the others are left 0.
FillVisFieldWallsRaised(walls, o) ==
    LET par(i) == SelectSeq(WallsOfRay(walls, i), LAMBDA w : RayParallel(o, i, w))
        first == CHOOSE i \in 1..VisFieldRes :
                     par(i) # <<>> /\ \A j \in 1..(i - 1) : par(j) = <<>>
    IN  [i \in 1..VisFieldRes |->
            IF i < first THEN FillVisFieldWalls(walls)[i]
            ELSE IF i = first THEN par(i)[1].name
            ELSE NothingPerceived]

\* The comparison (-1, 0, 1) of tan(d) with r / |v| for the angle d, below
\* pi/2, between the grid direction u and the vector v.
TanCmpOf(cross, dot, r) ==
    LET c2 == RMul(cross, cross)
        d2 == RMul(dot, dot)
        r2 == <<(4 * PosScale * r) * (4 * PosScale * r), 0>>
    IN  IF RCmp(c2, r2) > 0 THEN 1
        ELSE RCmp(RMul(c2, RAdd(c2, d2)), RMul(r2, d2))
TanCmp(u, v, r) ==
    CHOOSE cmp \in {TanCmpOf(cross, dot, r) : cross \in {CrossOf(u, v)}, dot \in {DotOf(u, v)}} :
        TRUE

\* The comparison (-1, 0, 1) of the angle d with angle_edge = arctan(r / |v|),
\* where d, hd in half-steps, is the angle from v to the grid angle k (or
\* back) seen from heading o.
EdgeCmp(hd, k, o, v, r) ==
    IF hd <= 0 THEN -1
    ELSE IF hd >= FullTurn \div 2 THEN 1
    ELSE TanCmp(DirOf(o - k), v, r)

\* A candidate of angle a (half-steps), vector v and radius r shows inside the
\* field of view: phi_L <= angle_L <= phi_R or phi_L <= angle_R <= phi_R.
InFOV(a, o, v, r) ==
    LET kL == Phi(1)
        kR == Phi(VisFieldRes)
    IN  \/ EdgeCmp(a - 2 * kL, kL, o, v, r) >= 0 /\ EdgeCmp(a - 2 * kR, kR, o, v, r) <= 0
        \/ EdgeCmp(2 * kL - a, kL, o, v, r) <= 0 /\ EdgeCmp(2 * kR - a, kR, o, v, r) >= 0

\* angle_L <= phis[i] <= angle_R for a candidate c.
RayInSpan(c, i, o) ==
    /\ EdgeCmp(c.angle_bw - 2 * Phi(i), Phi(i), o, c.vec, c.radius) <= 0
    /\ EdgeCmp(2 * Phi(i) - c.angle_bw, Phi(i), o, c.vec, c.radius) <= 0

\* gather_obj_info: the landmarks with another id than the agent's, within
\* vision_range of the sensor origin and inside the field of view.
GatherObjInfo(id, pt_eye, o) ==
    LET cand(k) == [name |-> Objs[k].id, kind |-> "obj",
                    vec |-> PSub(PixelPt(Objs[k].position[1], Objs[k].position[2]), pt_eye),
                    radius |-> RADIUS_LANDMARK, mode |-> "none",
                    angle_bw |-> AngleBwVis(o, PSub(PixelPt(Objs[k].position[1],
                                                            Objs[k].position[2]), pt_eye))]
    IN  SelectSeq([k \in 1..Len(Objs) |-> cand(k)],
                  LAMBDA c : /\ c.name # id
                             /\ c.vec # PixelPt(0, 0)
                             /\ DistanceLeq(c.vec, PixelPt(0, 0), VISION_RANGE)
                             /\ InFOV(c.angle_bw, o, c.vec, c.radius))

\* gather_agent_info: the other agents inside the field of view.
GatherAgentInfo(id, pt_eye, o, ags) ==
    LET ids == Sorted(DOMAIN ags)
        cand(k) == [name |-> ids[k], kind |-> "agent",
                    vec |-> PSub(ags[ids[k]].position, pt_eye),
                    radius |-> RADIUS_AGENT, mode |-> ags[ids[k]].mode,
                    angle_bw |-> AngleBwVis(o, PSub(ags[ids[k]].position, pt_eye))]
    IN  SelectSeq([k \in 1..Len(ids) |-> cand(k)],
                  LAMBDA c : /\ c.name # id
                             /\ c.vec # PixelPt(0, 0)
                             /\ InFOV(c.angle_bw, o, c.vec, c.radius))

\* occ_objs.sort()[0]: the candidate of the smallest (distance, name).
Nearest(cands) ==
    LET D(c) == Dist2(c.vec, PixelPt(0, 0))
        before(c, e) == \/ RCmp(D(c), D(e)) < 0
                        \/ RCmp(D(c), D(e)) = 0 /\ c.name <= e.name
    IN  CHOOSE k \in 1..Len(cands) : \A j \in 1..Len(cands) : before(cands[k], cands[j])

\* The label a ray gets from candidate c: the landmark's name, or the agent's
\* mode as exploit or not.
LabelOf(c) ==
    IF c.kind = "obj" THEN "obj_" \o ToString(c.name)
    ELSE IF c.mode = "exploit" THEN "agent_exploit"
    ELSE "agent_explore"

\* fill_vis_field_objs and fill_vis_field_agents for one ray: the label the
\* pass writes, or the label the ray had when no candidate's span holds it.
FillRay(label, cands, i, o) ==
    LET occ_objs == SelectSeq(cands, LAMBDA c : RayInSpan(c, i, o))
    IN  IF occ_objs = <<>> THEN label
        ELSE LabelOf(occ_objs[Nearest(occ_objs)])

\* fill_vis_field_walls, with the distance channel on or off.
FillWalls(walls, o, raised) ==
    IF ~Walled THEN [i \in 1..VisFieldRes |-> NothingPerceived]
    ELSE IF raised THEN FillVisFieldWallsRaised(walls, o)
    ELSE FillVisFieldWalls(walls)

\* fill_vis_field_objs and then fill_vis_field_agents on the rays the wall
\* pass has labelled.
FillObjsAndAgents(after_walls, objs, others, o) ==
    [i \in 1..VisFieldRes |-> FillRay(FillRay(after_walls[i], objs, i, o), others, i, o)]

\* Mutant of OrientationAfter: without "self.orientation = orientation_real".
OrientationKeepsNoise(orientation_real, o, raised) == o

\* self.orientation after visual_sensing: set back to orientation_real by the
\* last statement, which a pass that raised does not reach.
OrientationAfter(orientation_real, o, raised) == IF raised THEN o ELSE orientation_real

\* The scenes perception is applied to: the variant, the number of agents,
\* the field of view (steps of pi/4 to each side), whether the distance
\* channel is on (vis_transform) and whether the perceptual noise is.
PerceptConfigs ==
    {c \in [sim_type : {"walls", "walls, 2x pinball", "nowalls"},
            N : 1..2,
            fov : {2, FullTurn \div 2},
            vis_transform : BOOLEAN,
            noisy : BOOLEAN] :
        /\ c.N = 1 => c.sim_type = "walls"
        /\ c.N > 1 => c.fov = 2
        /\ c.noisy => c.sim_type = "walls"
        /\ c.vis_transform => c.sim_type = "walls" /\ c.N > 1}

\* The positions agent i stands at in a scene: the arena's middle and its
\* east side and its south-east corner (off the axis the others stand on)
\* for agent 0; its west side, touching the west wall and half a radius into
\* it for agent 1.
PerceptPositions(i) ==
    CASE i = 0 -> {PixelPt(WIDTH \div 2, HEIGHT \div 2),
                   PixelPt(WIDTH - 2 * RADIUS_AGENT, HEIGHT \div 2),
                   PixelPt(WIDTH - 2 * RADIUS_AGENT, HEIGHT - 2 * RADIUS_AGENT)}
      [] i = 1 -> {PixelPt(2 * RADIUS_AGENT, HEIGHT \div 2),
                   PixelPt(RADIUS_AGENT, HEIGHT \div 2),
                   <<<<(RADIUS_AGENT * PosScale) \div 2, 0>>, Px(HEIGHT \div 2)>>}

PerceptOrientations(i) ==
    CASE i = 0 -> {0, 2, 5}
      [] i = 1 -> {0, 3}

InitPercept ==
    /\ config \in PerceptConfigs
    /\ \E p0 \in PerceptPositions(0), o0 \in PerceptOrientations(0),
          m0 \in IF config.N > 1 THEN {"explore", "exploit"} ELSE {"explore"},
          p1 \in IF config.N > 1 THEN PerceptPositions(1) ELSE {PixelPt(0, 0)},
          o1 \in IF config.N > 1 THEN PerceptOrientations(1) ELSE {0} :
           agents = [i \in Ids |->
                        LET position == IF i = 0 THEN p0 ELSE p1
                            orientation == IF i = 0 THEN o0 ELSE o1
                        IN  [NewAgent(0, 0, orientation)
                                EXCEPT !.position = position,
                                       !.rect = RectCenterOf(position),
                                       !.mode = IF i = 0 THEN m0 ELSE "explore"]]
    /\ t = 0
    /\ pc = "percept"
    /\ idx = 0
    /\ result = <<>>
    /\ resources = {}
    /\ patch = <<>>
    /\ call = NoCall
    /\ first_consume = TRUE
    /\ first_consume_time = 0
    /\ data_agent = <<>>
    /\ moved = [made |-> FALSE]
    /\ sensed = [made |-> FALSE]
    /\ placing = [retries |-> 0, sampled |-> FALSE]
    /\ ea = NoEA /\ pool = <<>>

\* agent.visual_sensing(self.objs, self.agents) for one agent of the scene and
\* one noise sample (steps of pi/4): the agent looks along o = orientation +
\* noise, gathers the walls, the landmarks and the other agents, fills the
\* rays, and has its orientation set back unless fill_dist_field raised.
Sense ==
    /\ pc = "percept"
    /\ \E id \in Ids, noise \in NoiseSet :
       \E o \in {agents[id].orientation + noise} :
       \E pt_eye \in {PtEye(agents[id].position, o)} :
       \E walls \in {IF Walled THEN GatherBoundaryWallInfo(pt_eye, o) ELSE <<>>},
          objs \in {IF Walled THEN GatherObjInfo(id, pt_eye, o) ELSE <<>>},
          others \in {IF config.N > 1 THEN GatherAgentInfo(id, pt_eye, o, agents) ELSE <<>>} :
       \E raised \in {Walled /\ config.vis_transform /\ FillDistFieldRaises(walls, o)} :
       \E after_walls \in {FillWalls(walls, o, raised)} :
       \E vis_field \in {IF raised THEN after_walls
                         ELSE FillObjsAndAgents(after_walls, objs, others, o)} :
           /\ agents' = [agents EXCEPT
                            ![id].orientation = OrientationAfter(@, o, raised)]
           /\ sensed' = [made |-> TRUE, id |-> id, noise |-> noise, before |-> agents[id],
                         out |-> [o |-> o, pt_eye |-> pt_eye, walls |-> walls, objs |-> objs,
                                  others |-> others, raised |-> raised,
                                  after_walls |-> after_walls, vis_field |-> vis_field]]
           /\ pc' = IF raised THEN "raised" ELSE "percept"
    /\ UNCHANGED <<pool, ea, placing, config, t, idx, result, resources, patch, call,
                   first_consume, first_consume_time, data_agent, moved>>

\* self.num_class_elements: 4 or 6 in sims_target.py, 2 in sims_target_nowalls.py.
NumClassElements == IF ~Walled THEN 2 ELSE IF config.N = 1 THEN 4 ELSE 6

\* encode_one_hot's if/elif chain for one label: the row that is set to 1, or 0
\* when no branch matches the label.
ClassIndex(num_class_elements, x) ==
    IF num_class_elements = 4
    THEN CASE x = "wall_north" -> 1 [] x = "wall_south" -> 2
           [] x = "wall_east" -> 3 [] x = "wall_west" -> 4 [] OTHER -> 0
    ELSE IF num_class_elements = 2
    THEN CASE x = "agent_explore" -> 1 [] x = "agent_exploit" -> 2 [] OTHER -> 0
    ELSE IF num_class_elements = 6
    THEN CASE x = "wall_north" -> 1 [] x = "wall_south" -> 2
           [] x = "wall_east" -> 3 [] x = "wall_west" -> 4
           [] x = "agent_explore" -> 5 [] x = "agent_exploit" -> 6 [] OTHER -> 0
    ELSE 0

\* Agent.encode_one_hot(field): an array of zeros of num_class_elements rows and
\* len(field) columns in which each column gets a 1 in the row of its label.
EncodeOneHot(num_class_elements, field) ==
    [c \in 1..num_class_elements |->
        [i \in 1..Len(field) |-> IF ClassIndex(num_class_elements, field[i]) = c THEN 1 ELSE 0]]

\* The action phase's "vis_input = agent.encode_one_hot(agent.vis_field)" for
\* the agent that has sensed last.
EncodeInput ==
    /\ pc = "percept"
    /\ sensed.made /\ "vis_input" \notin DOMAIN sensed
    /\ sensed' = [vis_input |-> EncodeOneHot(NumClassElements, sensed.out.vis_field)] @@ sensed
    /\ UNCHANGED <<pool, ea, placing, config, t, pc, idx, result, agents, resources, patch, call,
                   first_consume, first_consume_time, data_agent, moved>>

NextPercept == Sense \/ EncodeInput
SpecPercept == InitPercept /\ [][NextPercept]_vars

(***************************************************************************)
(* start_sim.start and Simulation.__init__: the choice of the variant and  *)
(* the placement of the agents                                             *)
(***************************************************************************)

MaxRetries == 12     \* the placement loop is followed for at most MaxRetries samples per agent

\* "if retries > 10: print(f'Retries > 10')"
RetryCap == 10

NoPlacing == [retries |-> 0, sampled |-> FALSE]

StartsWith(s, prefix) == Len(s) >= Len(prefix) /\ SubSeq(s, 1, Len(prefix)) = prefix

\* The module whose Simulation start builds for envconf['SIM_TYPE'], "none"
\* when no branch of the if/elif chain is taken.
SimulationOf(sim_type) ==
    IF StartsWith(sim_type, "walls") THEN "sims_target"
    ELSE IF sim_type = "nowalls" THEN "sims_target_nowalls"
    ELSE IF StartsWith(sim_type, "nowalls_ghost") THEN "sims_target_nowalls_ghost"
    ELSE IF sim_type = "LM" THEN "sims_target_LM"
    ELSE "none"

\* The values of SIM_TYPE start is called with: one for every branch, and
\* two that name no variant.
StartTypes ==
    {"walls", "walls, 2x pinball", "nowalls", "nowalls_ghostexploiter", "LM", "nowall", "target"}

StartConfigs ==
    [sim_type : StartTypes, N : {1, 2},
     res_pos : {<<WIDTH \div 2, HEIGHT \div 2>>, <<2 * RADIUS_AGENT, HEIGHT \div 2>>}]

\* The positions and orientations np.random draws in create_agents:
\* x in [2r, WIDTH - 2r), y in [2r, HEIGHT - 2r), orientation in [0, 2*pi).
PlaceSamples ==
    {<<x, y, o>> : x \in {2 * RADIUS_AGENT, WIDTH \div 2 - RADIUS_AGENT, WIDTH \div 2,
                          WIDTH - 2 * RADIUS_AGENT - 1},
                   y \in {HEIGHT \div 2, HEIGHT - 2 * RADIUS_AGENT - 1},
                   o \in {0}}

InitStart ==
    /\ config \in StartConfigs
    /\ t = 0 /\ pc = "start" /\ idx = 0 /\ result = <<>>
    /\ resources = {}
    /\ patch = <<>>
    /\ agents = <<>>
    /\ call = NoCall
    /\ first_consume = TRUE /\ first_consume_time = 0
    /\ data_agent = <<>>
    /\ moved = [made |-> FALSE]
    /\ sensed = [made |-> FALSE]
    /\ placing = NoPlacing
    /\ ea = NoEA /\ pool = <<>>

\* start: the if/elif chain on envconf['SIM_TYPE'].  A taken branch builds the
\* Simulation (create_resources, then create_agents); when none is taken the
\* function body ends and start returns None.
StartSim ==
    /\ pc = "start"
    /\ IF SimulationOf(config.sim_type) \in {"sims_target", "sims_target_nowalls"}
       THEN /\ pc' = "create_agents"
            /\ resources' = {0}
            /\ patch' = [id \in {0} |-> NewRescource(AmtScale, AmtScale)]
            /\ result' = result
       ELSE IF SimulationOf(config.sim_type) = "none"
       THEN /\ pc' = "returned"
            /\ result' = <<"None">>
            /\ UNCHANGED <<resources, patch>>
       ELSE /\ pc' = "other_module"
            /\ UNCHANGED <<resources, patch, result>>
    /\ UNCHANGED <<pool, ea, placing, sensed, config, t, idx, agents, call,
                   first_consume, first_consume_time, data_agent, moved>>

\* create_agents, one pass of the while loop for agent idx: a position is
\* drawn, the Agent is built, the collisions with the patches and with the
\* agents already in the group are looked up and retries is counted up.  The
\* loop is left, and the agent added, when there is no collision.
CreateAgentsSample ==
    /\ pc = "create_agents" /\ idx < config.N
    /\ \E s \in PlaceSamples :
           LET agent == NewAgent(s[1], s[2], s[3])
               colliding == ~ValidPlacement(config, (idx :> agent) @@ agents)
               \* "retries = 0" before the loop of every agent
               retries == IF placing.sampled /\ placing.added THEN 0 ELSE placing.retries
           IN  /\ retries < MaxRetries
               /\ placing' = [retries |-> retries + 1, sampled |-> TRUE,
                              agent |-> agent, added |-> ~colliding]
               /\ IF colliding
                  THEN UNCHANGED <<agents, idx>>
                  ELSE /\ agents' = (idx :> agent) @@ agents
                       /\ idx' = idx + 1
    /\ UNCHANGED <<pool, ea, sensed, config, t, pc, result, resources, patch, call,
                   first_consume, first_consume_time, data_agent, moved>>

\* create_agents has added the N agents: the Simulation is built.
CreateAgentsDone ==
    /\ pc = "create_agents" /\ idx = config.N
    /\ pc' = "built"
    /\ UNCHANGED <<pool, ea, placing, sensed, config, t, idx, result, agents, resources, patch, call,
                   first_consume, first_consume_time, data_agent, moved>>

NextStart == StartSim \/ CreateAgentsSample \/ CreateAgentsDone
SpecStart == InitStart /\ [][NextStart]_vars

(***************************************************************************)
(* The worker pool: EvolAlgo.fit_parallel (abm/metarunner/EA_PGPE.py) and  *)
(* rerun_NNs (abm/monitoring/validation.py) pack the inputs of the start   *)
(* calls of one batch and hand them to pool.starmap_async.  A parameter    *)
(* vector is named by its index in the population.                         *)
(***************************************************************************)
MaxGen == 3          \* generations is 1..MaxGen
MaxPop == 2          \* population_size and num_NNs are 1..MaxPop
MaxEpisodes == 3     \* episodes and num_seeds are 1..MaxEpisodes
MaxSeed == 2         \* EA_START_SEED is 0..MaxSeed

\* range(self.start_seed, self.start_seed + self.episodes)
SeedsPerGen(start_seed, episodes) == [e \in 1..episodes |-> start_seed + (e - 1)]

\* "for pv in self.NN_param_vectors: for e in range(self.episodes):" appends
\* the input (model_tuple, pv, EA_save_dir, seeds_per_gen[e]).
SimInputsPerGen(population_size, episodes, start_seed) ==
    [k \in 1..(population_size * episodes) |->
        [pv |-> (k - 1) \div episodes,
         episode |-> (k - 1) % episodes,
         seed |-> SeedsPerGen(start_seed, episodes)[((k - 1) % episodes) + 1]]]

\* rerun_NNs: "for g,f in zip(top_ind, top_fit): for s in range(num_seeds):"
\* appends the input (None, pv, None, s, env_path).
MpInputs(num_NNs, num_seeds) ==
    [k \in 1..(num_NNs * num_seeds) |->
        [pv |-> (k - 1) \div num_seeds,
         episode |-> (k - 1) % num_seeds,
         seed |-> (k - 1) % num_seeds]]

\* EvolAlgo.__init__ arguments, or the arguments of rerun_NNs.
InitSeeds ==
    /\ \/ /\ pc = "fit"
          /\ config = NoConfig
          /\ ea \in [generations : 1..MaxGen, population_size : 1..MaxPop,
                     episodes : 1..MaxEpisodes, start_seed : 0..MaxSeed, i : {0}]
       \/ /\ pc = "validate"
          /\ config \in [sim_type : {"walls", "nowalls"},
                         num_NNs : 1..MaxPop, num_seeds : 1..MaxEpisodes]
          /\ ea = NoEA
    /\ pool = <<>>
    /\ t = 0 /\ idx = 0 /\ result = <<>>
    /\ resources = {} /\ patch = <<>> /\ agents = <<>>
    /\ call = NoCall
    /\ first_consume = TRUE /\ first_consume_time = 0
    /\ data_agent = <<>>
    /\ moved = [made |-> FALSE]
    /\ sensed = [made |-> FALSE]
    /\ placing = NoPlacing

\* fit_parallel, one pass of "for i in range(self.generations)": the seeds of
\* the generation, the advance of start_seed and the batch given to the pool.
FitGeneration ==
    /\ pc = "fit" /\ ea.i < ea.generations
    /\ pool' = SimInputsPerGen(ea.population_size, ea.episodes, ea.start_seed)
    /\ ea' = [ea EXCEPT !.start_seed = @ + ea.episodes, !.i = @ + 1]
    /\ UNCHANGED <<placing, sensed, config, t, pc, idx, result, agents, resources, patch,
                   call, first_consume, first_consume_time, data_agent, moved>>

\* fit_parallel after its last generation.
FitDone ==
    /\ pc = "fit" /\ ea.i = ea.generations
    /\ pc' = "fitted"
    /\ UNCHANGED <<pool, ea, placing, sensed, config, t, idx, result, agents, resources, patch,
                   call, first_consume, first_consume_time, data_agent, moved>>

\* rerun_NNs: the one batch of a validation run.
RerunNNs ==
    /\ pc = "validate"
    /\ pool' = MpInputs(config.num_NNs, config.num_seeds)
    /\ pc' = "validated"
    /\ UNCHANGED <<ea, placing, sensed, config, t, idx, result, agents, resources, patch,
                   call, first_consume, first_consume_time, data_agent, moved>>

NextSeeds == FitGeneration \/ FitDone \/ RerunNNs
SpecSeeds == InitSeeds /\ [][NextSeeds]_vars

(***************************************************************************)
(* The flocking prototype (abm/simulation/sims.py): its tick loop depletes *)
(* every patch some agent's circle touches.  Which agents touch which      *)
(* patch in a tick follows from their movement and is taken as the tick's  *)
(* input.                                                                  *)
(***************************************************************************)

\* Simulation(N, T) of sims.py.
SimsConfigs == [sim_type : {"sims"}, N : {1, 2}, T : {1, 2}]

\* The radius drawn for a patch, which is also its resc_units (resc_units is
\* not given to Rescource); quality is left at its default, 1.
SimsRadii == {1, 2}

\* The value "return depleted_units, ..." hands back: a tuple of two.
DepleteReturn(r) == <<r.depleted_units, r.destroy>>

\* bool(tuple) in "if destroy_resc:": a tuple is true unless it is empty.
Truthy(tuple) == Len(tuple) # 0

InitSims ==
    /\ config \in SimsConfigs
    /\ t = 0 /\ pc = "sims" /\ idx = 0 /\ result = <<>>
    /\ resources = {0, 1}
    /\ \E radius \in [{0, 1} -> SimsRadii] :
           patch = [id \in {0, 1} |-> NewRescource(radius[id] * AmtScale, AmtScale)]
    /\ agents = [i \in Ids |-> [mode |-> "explore", collected_r |-> 0]]
    /\ call = NoCall
    /\ first_consume = TRUE /\ first_consume_time = 0
    /\ data_agent = <<>>
    /\ moved = [made |-> FALSE]
    /\ sensed = [made |-> FALSE]
    /\ placing = NoPlacing
    /\ ea = NoEA /\ pool = <<>>

\* One pass of "for i in range(self.T)": the modes are reset, and for every
\* patch of collision_group_ar (the patches touched by at least one agent)
\* each touching agent collects one unit and turns to exploit, the patch is
\* depleted by the number of those agents and killed if "destroy_resc" is true.
SimsTick ==
    /\ pc = "sims" /\ t < config.T
    /\ \E group \in [resources -> SUBSET Ids] :
           LET hit == {id \in resources : group[id] # {}}
               r(id) == Deplete(patch[id], Cardinality(group[id]) * AmtScale)
               last == CHOOSE id \in hit : \A q \in hit : q <= id
           IN  /\ patch' = [id \in DOMAIN patch |-> IF id \in hit THEN r(id).p ELSE patch[id]]
               /\ resources' = resources \ {id \in hit : Truthy(DepleteReturn(r(id)))}
               /\ agents' = [i \in Ids |->
                      [mode |-> IF \E id \in hit : i \in group[id] THEN "exploit" ELSE "explore",
                       collected_r |-> agents[i].collected_r
                                       + AmtScale * Cardinality({id \in hit : i \in group[id]})]]
               /\ call' = IF hit = {} THEN call
                          ELSE CallOf(last, Cardinality(group[last]) * AmtScale,
                                      patch[last].resc_left, r(last))
    /\ t' = t + 1
    /\ UNCHANGED <<pool, ea, placing, sensed, config, pc, idx, result,
                   first_consume, first_consume_time, data_agent, moved>>

\* The loop is left after T passes: pygame.quit().
SimsQuit ==
    /\ pc = "sims" /\ ~(t < config.T)
    /\ pc' = "done"
    /\ UNCHANGED <<pool, ea, placing, sensed, config, t, idx, result, agents, resources, patch,
                   call, first_consume, first_consume_time, data_agent, moved>>

NextSims == SimsTick \/ SimsQuit
SpecSims == InitSims /\ [][NextSims]_vars

(***************************************************************************)
(* Agent.move on its own: two calls in a row on an agent in the arena's    *)
(* middle, each with the mode and the contact points the resolvers of its  *)
(* tick left (explore and none, or collide and one or two points around    *)
(* the agent) and with any action.                                         *)
(***************************************************************************)

\* Where a contact point lies from the agent's center, in pixels.
ContactOffsets ==
    <<<<1, 0>>, <<2, -1>>, <<1, -1>>, <<0, -1>>, <<-1, -1>>,
      <<-1, 0>>, <<-1, 1>>, <<0, 1>>, <<1, 1>>, <<2, 1>>>>

\* The contact point at offset number k from position.
ContactAt(position, k) ==
    PAdd(position, PixelPt(ContactOffsets[k][1], ContactOffsets[k][2]))

\* The modes and contact points an agent at position can enter move with.
MoveInputs(position) ==
    {[mode |-> "explore", collided_points |-> <<>>]}
    \cup {[mode |-> "collide", collided_points |-> <<ContactAt(position, k)>>] :
             k \in DOMAIN ContactOffsets}
    \cup {[mode |-> "collide",
           collided_points |-> <<ContactAt(position, kk[1]), ContactAt(position, kk[2])>>] :
             kk \in {x \in (DOMAIN ContactOffsets) \X (DOMAIN ContactOffsets) : x[1] < x[2]}}

InitMove ==
    /\ config = [sim_type |-> "walls", N |-> 1]
    /\ t = 0 /\ pc = "move" /\ idx = 0 /\ result = <<>>
    /\ resources = {} /\ patch = <<>>
    /\ \E o \in {0, 3, 6, FullTurn} :
           agents = [i \in {0} |-> NewAgent(WIDTH \div 2, HEIGHT \div 2, o)]
    /\ call = NoCall
    /\ first_consume = TRUE /\ first_consume_time = 0
    /\ data_agent = <<>>
    /\ moved = [made |-> FALSE]
    /\ sensed = [made |-> FALSE]
    /\ placing = NoPlacing
    /\ ea = NoEA /\ pool = <<>>

\* agent.move(NN_output) on the agent as its tick's resolvers left it.
MoveCall ==
    /\ pc \in {"move", "move_again"}
    /\ \E in \in MoveInputs(agents[0].position), NN_output \in (-One)..One :
           LET agent == [agents[0] EXCEPT !.mode = in.mode,
                                          !.collided_points = in.collided_points]
           IN  /\ agents' = [agents EXCEPT ![0] = Move(agent, NN_output)]
               /\ moved' = [made |-> TRUE, id |-> 0, NN_output |-> NN_output,
                            velocity_last_step |-> agents[0].velocity,
                            before |-> agent]
    /\ pc' = IF pc = "move" THEN "move_again" ELSE "moved"
    /\ UNCHANGED <<pool, ea, placing, sensed, config, t, idx, result, resources, patch, call,
                   first_consume, first_consume_time, data_agent>>

NextMove == MoveCall
SpecMove == InitMove /\ [][NextMove]_vars

(***************************************************************************)
(* The claims                                                              *)
(***************************************************************************)

\* C1: once a patch's remaining units are 0, every further deplete(u), for any
\* u (positive, zero or negative), returns (0, True) and leaves the remaining
\* units at 0.
C1_DepleteIdempotentAtZero ==
    (call.made /\ call.before = 0) =>
        /\ call.granted = 0
        /\ call.destroy
        /\ patch[call.id].resc_left = 0

\* C2: the granted amount deplete(u) returns is never greater than
\* min(quality, units remaining before the call), for every patch and every u.
C2_GrantedAtMostMin ==
    call.made =>
        call.granted <= Min(patch[call.id].unit_per_timestep, call.before)

\* A request above both caps was made and exactly the smaller cap, more than
\* nothing, was granted.
C2_Witness ==
    /\ call.made
    /\ call.u > patch[call.id].unit_per_timestep
    /\ call.u > call.before
    /\ call.granted > 0
    /\ call.granted = Min(patch[call.id].unit_per_timestep, call.before)

\* C3: deplete(u) with u <= 0 is a no-op: it grants 0 units, leaves the
\* remaining units unchanged and returns now_depleted = (remaining units = 0).
C3_NonPositiveRequestIsNoOp ==
    (call.made /\ call.u <= 0) =>
        /\ call.granted = 0
        /\ patch[call.id].resc_left = call.before
        /\ call.destroy = (patch[call.id].resc_left = 0)

\* C4: after any sequence of deplete calls, 0 <= remaining units <= initial
\* units, and no call leaves more units than it found.
C4_LeftBoundedAndNonIncreasing ==
    /\ \A id \in DOMAIN patch :
           /\ 0 <= patch[id].resc_left
           /\ patch[id].resc_left <= patch[id].resc_units
    /\ call.made => patch[call.id].resc_left <= call.before

C6_VelocityInRange ==
    pc = "act" /\ idx = config.N =>
    /\ \A i \in DOMAIN agents :
           0 <= agents[i].velocity /\ agents[i].velocity <= MAXIMUM_VELOCITY * One
    /\ moved.made /\ Abs(moved.NN_output) = One => agents[moved.id].velocity = 0

\* C7: the walled episode ends in the first tick in which an agent is in
\* exploit mode, returning that tick and 0; otherwise it ends after exactly T
\* ticks, returning T and the distance of the first agent to the patch.  The
\* tick counter never exceeds T and no step follows the termination.
C7_State ==
    /\ t <= config.T
    /\ (pc = "loop" \/ (pc = "act" /\ idx = config.N)) =>
           \A i \in Ids : agents[i].mode # "exploit"
    /\ pc = "done" =>
           \/ /\ \E i \in Ids : agents[i].mode = "exploit"
              /\ t < config.T
              /\ result = <<t, 0>>
           \/ /\ \A i \in Ids : agents[i].mode # "exploit"
              /\ t = config.T
              /\ result = <<config.T, Dist2(agents[0].position, ResPoint)>>
C7_WalledTermination == [](C7_State) /\ [][pc # "done"]_vars

\* C7 witness: an episode with horizon above 2 has ended on contact in tick 2.
C7_Witness ==
    pc = "done" /\ config.T > 2 /\ t = 2 /\ result[1] = 2 /\ \E i \in Ids : agents[i].mode = "exploit"

\* C8: in the no-walls variant the tick body runs exactly T times whatever the
\* modes (the episode is never left before t = T), and an agent in exploit
\* mode in the action phase consumes.
C8_NoWallsRunsExactlyT ==
    /\ pc # "raised"
    /\ pc = "done" => t = config.T /\ result[1] = config.T

\* C9: the last resolver that fires decides the mode: an agent for which a
\* collide resolver and the resource resolver both fire in a collision pass
\* leaves the pass in exploit mode; with a collide resolver alone it leaves in
\* collide mode, with none in explore mode.
OnResource(i) ==
    /\ resources # {}
    /\ CollideCircle(agents[i].rect, RADIUS_AGENT, SpriteCenter(config.res_pos), RADIUS_RESOURCE)
    /\ DistanceLeq(agents[i].position, ResPoint, RADIUS_RESOURCE)
C9_LastResolverWins ==
    pc = "sense" =>
        \A i \in Ids :
            agents[i].mode = IF OnResource(i) THEN "exploit"
                             ELSE IF agents[i].collided_points # <<>> THEN "collide"
                             ELSE "explore"

\* C9 witness: an agent leaves the pass with a contact point and in exploit mode.
C9_Witness ==
    pc = "sense" /\ \E i \in Ids : agents[i].collided_points # <<>> /\ agents[i].mode = "exploit"

\* C10: when two agents overlap at the start of a tick, the agent-agent
\* resolver of that tick leaves both in collide mode, each with a contact point.
AgentsOverlap(i, j) ==
    i # j /\ CollideCircle(RectCenterOf(agents[i].position), RADIUS_AGENT,
                           RectCenterOf(agents[j].position), RADIUS_AGENT)
AfterAgentResolver ==
    IF Walled
    THEN CollideAgentAgent(CollideAgentObjs(CollideAgentWall(Refresh(agents))))
    ELSE CollideAgentAgent(Refresh(agents))
C10_OverlappingAgentsCollide ==
    pc = "loop" /\ t < config.T =>
        \A i, j \in Ids :
            AgentsOverlap(i, j) =>
                /\ AfterAgentResolver[i].mode = "collide"
                /\ AfterAgentResolver[i].collided_points # <<>>

\* C11: with regeneration enabled, once the patch has been fully depleted the
\* episode continues and from the next tick on an active patch (units
\* remaining > 0) exists in the world.
C11_DepletedPatchIsRegenerated ==
    config.regenerate /\ call.made /\ call.destroy =>
        /\ pc # "raised"
        /\ pc = "loop" => \E id \in resources : patch[id].resc_left > 0

WallNames == {"wall_north", "wall_south", "wall_east", "wall_west"}
EyeInside(pt_eye) ==
    /\ CSgn(CSub(pt_eye[1], BoundaryEndpts.TL[1])) > 0
    /\ CSgn(CSub(BoundaryEndpts.BR[1], pt_eye[1])) > 0
    /\ CSgn(CSub(pt_eye[2], BoundaryEndpts.TL[2])) > 0
    /\ CSgn(CSub(BoundaryEndpts.BR[2], pt_eye[2])) > 0
C13_EveryRayHasWallLabel ==
    sensed.made /\ Walled /\ EyeInside(sensed.out.pt_eye) =>
        /\ ~sensed.out.raised
        /\ \A i \in 1..VisFieldRes : sensed.out.after_walls[i] \in WallNames

\* C13 witness: the agent at the exact center, facing along a cardinal axis
\* with rays all around, has a ray that no wall's span holds directly (the
\* wall behind its back labels it) and every ray has a wall label.
C13_Witness ==
    /\ sensed.made /\ Walled /\ config.fov = FullTurn \div 2
    /\ sensed.before.position = PixelPt(WIDTH \div 2, HEIGHT \div 2)
    /\ sensed.out.o \in {0, 2, 4, 6}
    /\ \E i \in 1..VisFieldRes :
           /\ \A k \in 1..Len(sensed.out.walls) :
                  ~(sensed.out.walls[k].angle_L <= 2 * Phi(i)
                    /\ 2 * Phi(i) <= sensed.out.walls[k].angle_R)
           /\ sensed.out.after_walls[i] \in WallNames
    /\ \A i \in 1..VisFieldRes : sensed.out.after_walls[i] \in WallNames

\* C14: when the angular spans of several dynamic candidates (agents or
\* landmarks) contain the same ray, the ray takes the label of the candidate
\* at the smallest distance from the sensor origin.
Nearer(c, e) == RCmp(Dist2(c.vec, PixelPt(0, 0)), Dist2(e.vec, PixelPt(0, 0))) < 0
C14_NearestCandidateWins ==
    sensed.made /\ ~sensed.out.raised =>
        \A i \in 1..VisFieldRes :
            LET cands == SelectSeq(sensed.out.objs \o sensed.out.others,
                                   LAMBDA c : RayInSpan(c, i, sensed.out.o))
            IN  \A k \in 1..Len(cands) :
                    (\A j \in 1..Len(cands) : j # k => Nearer(cands[k], cands[j]))
                        => sensed.out.vis_field[i] = LabelOf(cands[k])

\* C15: a perception pass leaves the agent's kinematic state as it found it:
\* for every noise sample the orientation after the pass equals the
\* orientation before it, and position and velocity are not modified.
C15_SensingKeepsKinematicState ==
    sensed.made /\ pc # "raised" =>
        /\ agents[sensed.id].orientation = sensed.before.orientation
        /\ agents[sensed.id].position = sensed.before.position
        /\ agents[sensed.id].velocity = sensed.before.velocity

\* C15 witness: a pass that looked along a noisy heading has completed and the
\* agent has its heading of before.
C15_Witness ==
    /\ sensed.made /\ pc # "raised"
    /\ sensed.noise # 0
    /\ sensed.out.o # sensed.before.orientation
    /\ sensed.out.pt_eye # PtEye(sensed.before.position, sensed.before.orientation)
    /\ agents[sensed.id].orientation = sensed.before.orientation

\* C16: the agent-resource resolver of a tick puts an agent in exploit mode,
\* sets its on-resource flag and binds a patch to it exactly when a patch of
\* the world has its center within the patch radius of the agent's center;
\* every other agent it leaves as it was.
BeforeResourceResolver ==
    IF Walled
    THEN CollideAgentAgent(CollideAgentObjs(CollideAgentWall(Refresh(agents))))
    ELSE CollideAgentAgent(Refresh(agents))
CenterOnPatch(i) ==
    resources # {} /\ DistanceLeq(agents[i].position, ResPoint, RADIUS_RESOURCE)
C16_ExploitIffCenterOnPatch ==
    pc = "loop" /\ t < config.T =>
        \A i \in Ids :
            LET was == BeforeResourceResolver[i]
                is == CollideAgentRes(BeforeResourceResolver)[i]
            IN  IF CenterOnPatch(i)
                THEN is.mode = "exploit" /\ is.on_res = 1 /\ is.res_to_be_consumed \in resources
                ELSE is = was

\* C17: another agent farther from the perceiving agent's sensor origin than
\* vision_range is never a perception candidate, and no ray is labelled
\* agent_explore or agent_exploit because of it.
InVisionRange(c) == DistanceLeq(c.vec, PixelPt(0, 0), VISION_RANGE)
C17_NoAgentBeyondVisionRange ==
    sensed.made =>
        /\ \A k \in 1..Len(sensed.out.others) : InVisionRange(sensed.out.others[k])
        /\ \A i \in 1..VisFieldRes :
               sensed.out.vis_field[i] \in {"agent_explore", "agent_exploit"} =>
                   \E k \in 1..Len(sensed.out.others) :
                       /\ InVisionRange(sensed.out.others[k])
                       /\ RayInSpan(sensed.out.others[k], i, sensed.out.o)

\* C18: when the intersection of a ray with the perceived edge is none (the
\* ray is parallel to the edge) and the distance channel is on, the perception
\* pass completes without raising and the tick goes on.
C18_ParallelRayDoesNotRaise ==
    sensed.made /\ config.vis_transform /\ Walled
    /\ (\E i \in 1..VisFieldRes :
           \E k \in 1..Len(WallsOfRay(sensed.out.walls, i)) :
               RayParallel(sensed.out.o, i, WallsOfRay(sensed.out.walls, i)[k]))
    => ~sensed.out.raised /\ pc # "raised"

\* C19: the placement of an agent ends after a fixed cap of retries: once more
\* than the cap of samples have collided with a patch or a placed agent, the
\* agent is in the world at its last sampled position.
C19_PlacedAfterRetryCap ==
    placing.sampled /\ placing.retries > RetryCap =>
        /\ placing.added
        /\ \E i \in DOMAIN agents : agents[i] = placing.agent

\* C20: start called with a SIM_TYPE that names no variant fails with an error
\* before any tick: it never returns normally without having run an episode.
C20_UnknownVariantFails ==
    SimulationOf(config.sim_type) = "none" => pc \in {"start", "raised"}

\* C21: every episode of one batch given to the worker pool (one generation of
\* fit_parallel, one validation run) has a seed different from that of every
\* other episode of the batch.
C21_SeedsDistinctInBatch ==
    \A a, b \in DOMAIN pool : a # b => pool[a].seed # pool[b].seed


\* C22: a patch is removed from the world exactly in the tick in which a
\* deplete call brings its units to zero: after a tick's depletion a patch with
\* units left is in the world and a patch with none is not.
C22_RemovedExactlyAtZero ==
    \A id \in DOMAIN patch :
        /\ patch[id].resc_left > 0 => id \in resources
        /\ patch[id].resc_left = 0 => id \notin resources

\* The circular distance of two angles counted in steps of pi/8.
CircDist(a, b) == Min((a - b) % (2 * FullTurn), (b - a) % (2 * FullTurn))

\* The contact points of the agent of the last move whose bearing from the
\* agent's center is less than pi/2 away from the orientation it moved along.
ContactsAhead ==
    {k \in 1..Len(moved.before.collided_points) :
        LET vec_coll == PSub(moved.before.collided_points[k], moved.before.position)
        IN  /\ vec_coll # PixelPt(0, 0)
            /\ CircDist(2 * agents[moved.id].orientation, Bearing(vec_coll)) < 2 * One}

\* C23: move forces the velocity of an agent in collide mode to 0 exactly when
\* the orientation is less than pi/2 (the extra blocking margin is 0) away, on
\* the circle, from the bearing of at least one contact point of the tick; in
\* any other mode, and otherwise, the velocity is max_vel * (1 - |NN_output|).
C23_BlockedIffContactAhead ==
    moved.made =>
        agents[moved.id].velocity =
            IF moved.before.mode = "collide" /\ ContactsAhead # {}
            THEN 0
            ELSE VelocityOf(moved.NN_output)

\* A move in collide mode, with an action that asked for a positive velocity,
\* stopped by its second contact only, the orientation and the contact's
\* bearing lying on the two sides of the 0/2*pi boundary.
C23_Witness ==
    /\ moved.made /\ moved.before.mode = "collide"
    /\ VelocityOf(moved.NN_output) > 0
    /\ agents[moved.id].velocity = 0
    /\ ContactsAhead = {2}
    /\ LET b == Bearing(PSub(moved.before.collided_points[2], moved.before.position))
       IN  Abs(2 * agents[moved.id].orientation - b) > 2 * FullTurn - 2 * One

\* C24: the overlap tests of every resolver of a tick read the agents' current
\* positions: when the resolvers are about to run, every agent's rect, which
\* the overlap tests read, is centered on the position the agent holds.
C24_ResolversTestCurrentPositions ==
    pc = "loop" /\ t < config.T =>
        \A i \in Ids : agents[i].rect = RectCenterOf(agents[i].position)

\* An agent is in exploit mode when the action phase reaches it.
ExploitAtActionTime == pc = "act" /\ idx < config.N /\ agents[idx].mode = "exploit"

\* C25: in the no-walls variant the first-contact tick is recorded once: it is
\* set to the tick's index, and the flag dropped, by the first step in which an
\* agent is in exploit mode at action time; no later step changes it; and the
\* returned result holds it, or T when no agent was ever in exploit mode.
C25_FirstContactRecordedOnce ==
    [][/\ first_consume /\ ExploitAtActionTime =>
              ~first_consume' /\ first_consume_time' = t
       /\ first_consume /\ ~ExploitAtActionTime => first_consume'
       /\ ~first_consume => ~first_consume' /\ first_consume_time' = first_consume_time
       /\ pc' = "done" =>
              result'[3] = IF first_consume THEN config.T ELSE first_consume_time]_vars

\* An episode that has returned a first contact made after tick 0 and before
\* the last tick, with units collected in a later tick as well.
C25_Witness ==
    /\ pc = "done" /\ ~first_consume
    /\ result[3] = first_consume_time
    /\ first_consume_time > 0 /\ first_consume_time < config.T - 1
    /\ \E i \in Ids : agents[i].collected_r > AGENT_CONSUMPTION * AmtScale

\* C26: after every move the agent's stored acceleration is the velocity it has
\* at the end of this move less the velocity it had at the end of its previous
\* move, in every mode and for every set of contact points.
C26_AccelerationIsVelocityDelta ==
    moved.made =>
        agents[moved.id].acceleration
            = agents[moved.id].velocity - moved.velocity_last_step

\* The position, the orientation and the velocity of agent i are left alone by
\* the step.
KinematicsUnchanged(i) ==
    /\ agents'[i].position = agents[i].position
    /\ agents'[i].orientation = agents[i].orientation
    /\ agents'[i].velocity = agents[i].velocity

\* C27: in the no-walls variant the action phase calls consume, and not move,
\* for an agent in exploit mode: the step depletes the patch the agent is bound
\* to, credits what was granted (0 included) and leaves the agent's position,
\* orientation and velocity alone; for an agent in another mode it calls move
\* and depletes no patch; no other step of the tick moves the agent.
C27_ConsumeOrMove ==
    [][\A i \in Ids :
          /\ pc = "act" /\ idx = i /\ agents[i].mode = "exploit" =>
                 /\ call'.made /\ call'.id = agents[i].res_to_be_consumed
                 /\ call'.before = patch[call'.id].resc_left
                 /\ patch'[call'.id].resc_left = call'.before - call'.granted
                 /\ agents'[i].collected_r = agents[i].collected_r + call'.granted
                 /\ moved' = moved
                 /\ KinematicsUnchanged(i)
          /\ pc = "act" /\ idx = i /\ agents[i].mode # "exploit" =>
                 /\ moved'.made /\ moved'.id = i /\ moved'.before = agents[i]
                 /\ agents'[i] = Move(agents[i], moved'.NN_output)
                 /\ patch' = patch /\ resources' = resources /\ call' = call
                 /\ agents'[i].collected_r = agents[i].collected_r
          /\ ~(pc = "act" /\ idx = i) => KinematicsUnchanged(i)]_vars

\* A tick in which the last agent of the action phase, in exploit mode, has
\* consumed and was granted 0 units, and stands where its last move left it.
C27_Witness ==
    /\ ~Walled /\ pc = "act" /\ idx = config.N
    /\ call.made /\ call.granted = 0
    /\ agents[idx - 1].res_to_be_consumed = call.id
    /\ agents[idx - 1].mode = "explore"
    /\ moved.made /\ moved.id = idx - 1
    /\ moved.before.mode # "exploit"

\* The units collected by the agents 0..n-1.
RECURSIVE SumCollected(_)
SumCollected(n) == IF n = 0 THEN 0 ELSE agents[n - 1].collected_r + SumCollected(n - 1)

\* C28: in the no-walls variant with regeneration off, the units the agents
\* have collected and the units left in the patch add up to the patch's initial
\* units, at every point of every tick, however many agents consume the patch
\* in a tick and also for an agent bound to a patch that was depleted and
\* removed earlier in the tick.
C28_UnitsConserved ==
    ~Walled /\ ~config.regenerate =>
        SumCollected(config.N) + patch[0].resc_left = patch[0].resc_units

\* Two agents bound to the same patch in one tick: the first has depleted it
\* and had it removed, the second has consumed after that.
C28_Witness ==
    /\ ~Walled /\ ~config.regenerate /\ config.N = 2
    /\ pc = "act" /\ idx = 2
    /\ resources = {} /\ patch[0].resc_left = 0
    /\ agents[0].res_to_be_consumed = 0 /\ agents[1].res_to_be_consumed = 0
    /\ agents[0].collected_r = patch[0].resc_units
    /\ call.made /\ call.before = 0 /\ call.destroy

\* C29: the total the no-walls variant returns at the end of an episode is the
\* sum of the units its agents have collected by then, the units consumed in
\* the last tick included.
C29_ReturnedTotalIsCollected ==
    ~Walled /\ pc = "done" => result[2] = SumCollected(config.N)

\* The number of channels set to 1 in column i of the encoded input.
ChannelsSet(i) == Cardinality({c \in DOMAIN sensed.vis_input : sensed.vis_input[c][i] = 1})

\* C30: in a walled arena every ray in which the perception pass has put a
\* label (a wall name, a landmark's obj_<id>, agent_explore, agent_exploit) has
\* exactly one channel set to 1 in its column of the one-hot input.
C30_PerceivedRayHasOneChannel ==
    Walled /\ sensed.made /\ "vis_input" \in DOMAIN sensed =>
        \A i \in 1..VisFieldRes :
            sensed.out.vis_field[i] # NothingPerceived => ChannelsSet(i) = 1

=============================================================================
